---- MODULE Spec2Model ----
(***************************************************************************)
(* Verification model of the center-bot repository.                        *)
(*                                                                         *)
(*   SpecTurn : the tool-calling conversation loop, in its three           *)
(*              implementations (slack/new_client.py,                      *)
(*              src/services/slack/mcp_client.py,                          *)
(*              mcp_slack_client_server/claude.py).                        *)
(*   SpecSync : Google Drive ingestion, by the manager of the service and  *)
(*              by the stand-alone gdrive_scraping script.                 *)
(*   SpecSyncIO : SpecSync with reads and writes of the sync file that     *)
(*              fail.                                                      *)
(*   SpecCommit : calls of process_file_to_vector_db in flight together.   *)
(*   SpecWeb  : the web content sync service and its scheduler.            *)
(*   SpecSearch : the search tool over the stored chunks.                  *)
(*   SpecChunk : the chunker of the document processor.                    *)
(*   SpecCrawl : the Firecrawl service: crawl_sites and the scheduler      *)
(*              thread.                                                    *)
(***************************************************************************)
EXTENDS Integers, Sequences, FiniteSets, TLC

(***************************************************************************)
(* Bounds of the exploration.                                              *)
(***************************************************************************)
\* model calls explored in one turn (the loops in the source are unbounded)
MaxModelCalls == 3
\* content blocks in one model response
MaxBlocks == 2
\* files in the Google Drive
NumFiles == 2
\* edits made to the files of the Drive while the model runs
MaxEdits == 1
\* single-file sync requests served
MaxSingle == 1
\* URLs in the web content URLs file
NumUrls == 2
\* web sync passes started while the model runs
MaxPasses == 2
\* manual web syncs that may be in flight at once
MaxManual == 1
\* reads and writes of the sync file that fail while the model runs
MaxIoErrors == 1
\* characters in a document handed to the chunker
MaxLen == 6
\* the largest chunk_size argument
MaxChunkSize == 3
\* the largest chunk_overlap argument
MaxOverlap == 2
\* calls of _chunk_document made on one document
MaxChunkCalls == 2
\* sites in the crawl configuration
NumSites == 2
\* calls of crawl_all_sites by the route and the script
MaxCrawls == 1
\* scheduler threads created while the model runs
MaxStarts == 2

(***************************************************************************)
(* State of the tool loop (Part 1).                                        *)
(***************************************************************************)
VARIABLES
    client,          \* which implementation runs the turn
    tpc,             \* position of the turn
    response,        \* content blocks of the model response being handled
    pending,         \* claude.py: tool uses collected and not yet executed
    messages,        \* message history sent to the model
    final_text,      \* accumulated output text
    post_tool_count, \* new_client.py: posting tools used so far
    invocations,     \* every tool execution of the turn, in order
    model_calls,     \* calls made to the language model API
    model_error,     \* TRUE once the language model API call has failed
    ret,             \* what the turn returned
    thread_ts,       \* mcp_client.py: TRUE when a thread timestamp was given
    channel_id,      \* mcp_client.py: TRUE when a channel id was given
    enable_tool_use  \* claude.py: the enable_tool_use argument

turnVars == <<client, tpc, response, pending, messages, final_text,
              post_tool_count, invocations, model_calls, model_error, ret,
              thread_ts, channel_id, enable_tool_use>>

(***************************************************************************)
(* State of the Google Drive ingestion (Part 2).                           *)
(***************************************************************************)
VARIABLES
    prog,            \* which of the two programs runs
    drive,           \* Google Drive: the modifiedTime of every file
    synced,          \* the sync file: file id -> last synced modifiedTime
    collection,      \* the Chroma collection: the stored chunks
    spc,             \* position of the ingestion in progress
    files_to_update, \* listed files still to be processed in this pass
    job,             \* the file being ingested
    synced_count,    \* gdrive.py: files synced so far in this pass
    result,          \* what the last completed pass returned
    delta,           \* ids of the files the current or last pass set out to sync
    outcome,         \* per file, how the current or last pass ended for it
    singles          \* single-file sync requests served so far

syncVars == <<prog, drive, synced, collection, spc, files_to_update, job,
              synced_count, result, delta, outcome, singles>>

(***************************************************************************)
(* State of the web content sync (Part 3).                                 *)
(***************************************************************************)
VARIABLES
    is_running,      \* WebContentSyncService.is_running
    task,            \* per task running sync_all_urls: its position and counts
    pages,           \* the text each configured URL serves
    web_docs,        \* chunks of web documents in the collection
    passes,          \* sync passes started so far
    last_pass        \* how the last completed pass ended

webVars == <<is_running, task, pages, web_docs, passes, last_pass>>

(***************************************************************************)
(* Faults of the environment the model injects.                            *)
(***************************************************************************)
VARIABLES
    io_errors        \* failed reads and writes of the sync file so far

faultVars == <<io_errors>>

(***************************************************************************)
(* State of the calls of process_file_to_vector_db that are in flight on   *)
(* the event loop of the service at the same time.                         *)
(***************************************************************************)
VARIABLES
    call,            \* per caller, its call of process_file_to_vector_db
    last_commit      \* per file, the watermark its last completed commit wrote

concVars == <<call, last_commit>>

(***************************************************************************)
(* State of the search tool.                                               *)
(***************************************************************************)
VARIABLES
    found            \* the last search: who served it, its source, its results

searchVars == <<found>>

(***************************************************************************)
(* State of the chunker: a document and the calls of _chunk_document made  *)
(* on it.                                                                  *)
(***************************************************************************)
VARIABLES
    doc_content,     \* the content argument, a sequence of characters
    chunk_size,      \* the chunk_size argument
    chunk_overlap,   \* the chunk_overlap argument
    chunked          \* what each call of _chunk_document made so far returned

chunkVars == <<doc_content, chunk_size, chunk_overlap, chunked>>

(***************************************************************************)
(* State of the Firecrawl service (FirecrawlManager).                      *)
(***************************************************************************)
VARIABLES
    site_kind,        \* the configuration: what kind of entry each site is
    current_crawls,   \* FirecrawlManager.current_crawls
    last_crawl_times, \* the URLs that have an entry in last_crawl_times
    crawl,            \* the call of crawl_sites in flight
    crawls,           \* calls of crawl_sites made so far
    fc_is_running,    \* FirecrawlManager.is_running
    scheduler_thread, \* FirecrawlManager.scheduler_thread, 0 for None
    thread            \* per scheduler thread created, where it is

crawlVars == <<site_kind, current_crawls, last_crawl_times, crawl, crawls,
               fc_is_running, scheduler_thread, thread>>

\* the parts that are not the Drive ingestion, the web sync or the tool loop
otherVars == <<faultVars, concVars, searchVars, chunkVars, crawlVars>>

vars == <<turnVars, syncVars, webVars, otherVars>>

\* what the actions of one part leave alone
notTurn == <<syncVars, webVars, otherVars>>
notSync == <<turnVars, webVars, otherVars>>
notWeb == <<turnVars, syncVars, otherVars>>

(***************************************************************************)
(* Part 1.  The tool loop.                                                 *)
(***************************************************************************)

Clients == {"MCPClient", "MCPSlackClient", "claude_mcp_request"}

\* new_client.py: the tools that send something to Slack
post_tool_names == {"slack_post_message", "slack_reply_to_thread", "slack_add_reaction"}

\* tool names a model response may ask for
ToolNames == {"search", "slack_post_message"}

\* a content block is "text" or a tool_use block, written as the tool's name
BlockKinds == {"text"} \cup ToolNames

Responses == UNION {[1..n -> BlockKinds] : n \in 0..MaxBlocks}

\* outcome of session.call_tool: a result, an {"ok": false} result, or a
\* JSON-RPC error that the client session raises
CallOutcomes == {"ok", "error", "raise"}

\* index of the first tool_use block of a response, 0 when there is none
FirstToolUse(r) ==
    IF \E i \in DOMAIN r : r[i] # "text"
    THEN CHOOSE i \in DOMAIN r : r[i] # "text" /\ \A j \in 1..(i-1) : r[j] = "text"
    ELSE 0

\* the text blocks the for-loop appends before it stops
TextsAppended(r) ==
    LET k == FirstToolUse(r)
        n == IF k = 0 THEN Len(r) ELSE k - 1
    IN  [i \in 1..n |-> "text"]

\* one execution of a tool: its name, how call_tool or execute_tool ended,
\* the round it belongs to and whether the loop or the except branch made it
Invocation(name, o, round, phase) ==
    [tool |-> name, outcome |-> o, round |-> round, phase |-> phase]

\* the messages of the history; round is the round a message belongs to
\* mcp_client.py 203-210 and claude.py 587-593: a tool_result block
ToolResultMsg(round) == [role |-> "user", type |-> "tool_result", round |-> round]
\* new_client.py 123: the content of the tool's result as a user message
ResultContentMsg(round) == [role |-> "user", type |-> "result_content", round |-> round]
\* mcp_client.py 199-202: the tool_use block as an assistant message
AssistantMsg(round) == [role |-> "assistant", type |-> "tool_use", round |-> round]
\* the user's query
UserMsg == [role |-> "user", type |-> "text", round |-> 0]

TurnInit ==
    /\ io_errors = 0 /\ call = <<>> /\ last_commit = <<>> /\ found = <<>>
    /\ doc_content = <<>> /\ chunk_size = 1 /\ chunk_overlap = 1 /\ chunked = <<>>
    /\ site_kind = <<>> /\ current_crawls = {} /\ last_crawl_times = {}
    /\ crawl = [pc |-> "off"] /\ crawls = 0 /\ fc_is_running = FALSE
    /\ scheduler_thread = 0 /\ thread = <<>>
    /\ client \in Clients
    /\ tpc = "call_model"
    /\ response = <<>>
    /\ pending = <<>>
    /\ messages = <<UserMsg>>
    /\ final_text = <<>>
    /\ post_tool_count = 0
    /\ invocations = <<>>
    /\ model_calls = 0
    /\ model_error = FALSE
    /\ ret = [kind |-> "none", text |-> <<>>]
    /\ thread_ts \in BOOLEAN
    /\ channel_id \in BOOLEAN
    /\ enable_tool_use \in BOOLEAN
    \* no ingestion runs
    /\ prog = "GoogleDriveManager" /\ drive = [f \in 1..NumFiles |-> 1]
    /\ synced = [f \in 1..NumFiles |-> -1]
    /\ collection = {} /\ spc = "off" /\ files_to_update = <<>>
    /\ job = [id |-> 0, mode |-> "none"]
    /\ synced_count = 0 /\ result = {} /\ delta = {}
    /\ outcome = [f \in 1..NumFiles |-> "none"] /\ singles = 0
    \* no web sync runs
    /\ is_running = FALSE /\ task = [t \in 0..MaxManual |-> [pc |-> "off"]]
    /\ pages = [u \in 1..NumUrls |-> "blank"]
    /\ web_docs = {} /\ passes = 0 /\ last_pass = "none"

\* mcp_client.py 236-253: the except branch of process_query.  It posts the
\* error text with a tool call of its own and returns that text.
ExceptHandler(log) ==
    \E o \in CallOutcomes :
        LET name == IF thread_ts THEN "slack_reply_to_thread" ELSE "slack_post_message"
            posts == thread_ts \/ channel_id
        IN  /\ invocations' = IF posts
                              THEN Append(log, Invocation(name, o, model_calls, "except"))
                              ELSE log
            /\ IF posts /\ o = "raise"
               THEN /\ tpc' = "raised"
                    /\ ret' = [kind |-> "exception", text |-> <<>>]
               ELSE /\ tpc' = "returned"
                    /\ ret' = [kind |-> "error_text", text |-> <<"str(e)">>]

\* new_client.py 85-90, mcp_client.py 176-181: one call of the model API
CallModel ==
    /\ client \in {"MCPClient", "MCPSlackClient"}
    /\ tpc = "call_model"
    /\ model_calls < MaxModelCalls
    /\ model_calls' = model_calls + 1
    /\ \/ \* the API returns a response
          \E r \in Responses :
            /\ response' = r
            /\ tpc' = "blocks"
            /\ UNCHANGED <<invocations, ret, model_error>>
       \/ \* the API call raises
          /\ model_error' = TRUE
          /\ response' = <<>>
          /\ IF client = "MCPClient"
             THEN /\ tpc' = "raised"
                  /\ ret' = [kind |-> "exception", text |-> <<>>]
                  /\ UNCHANGED invocations
             ELSE ExceptHandler(invocations)
    /\ UNCHANGED <<client, pending, messages, final_text, post_tool_count,
                   thread_ts, channel_id, enable_tool_use>>
    /\ UNCHANGED notTurn

\* new_client.py 93-131: the for-loop over the response's content blocks
ProcessResponseNew ==
    /\ client = "MCPClient"
    /\ tpc = "blocks"
    /\ LET k == FirstToolUse(response)
           texts == final_text \o TextsAppended(response)
       IN  IF k = 0
           THEN \* no tool used: leave the loop and return the text
                /\ final_text' = texts
                /\ tpc' = "returned"
                /\ ret' = [kind |-> "final_text", text |-> texts]
                /\ UNCHANGED <<messages, post_tool_count, invocations>>
           ELSE \E o \in CallOutcomes :
                LET name == response[k]
                    called == Append(texts, "[Calling tool]")
                IN  /\ final_text' = called
                    /\ invocations' = Append(invocations, Invocation(name, o, model_calls, "loop"))
                    /\ IF o = "raise"
                       THEN \* nothing catches it inside process_query
                            /\ tpc' = "raised"
                            /\ ret' = [kind |-> "exception", text |-> <<>>]
                            /\ UNCHANGED <<messages, post_tool_count>>
                       ELSE IF name \in post_tool_names
                       THEN /\ post_tool_count' = post_tool_count + 1
                            /\ tpc' = "returned"
                            /\ ret' = [kind |-> "final_text", text |-> called]
                            /\ UNCHANGED messages
                       ELSE /\ messages' = Append(messages, ResultContentMsg(model_calls))
                            /\ tpc' = "call_model"
                            /\ UNCHANGED <<post_tool_count, ret>>
    /\ response' = <<>>
    /\ UNCHANGED <<client, pending, model_calls, model_error, thread_ts, channel_id,
                   enable_tool_use>>
    /\ UNCHANGED notTurn

\* mcp_client.py 183-234: the for-loop over the response's content blocks
ProcessResponseSlack ==
    /\ client = "MCPSlackClient"
    /\ tpc = "blocks"
    /\ LET k == FirstToolUse(response)
           texts == final_text \o TextsAppended(response)
       IN  /\ final_text' = texts
           /\ IF k = 0
              THEN \* the available tools include the slack_ tools, so the
                   \* manual post of lines 220-232 is not taken
                   /\ tpc' = "returned"
                   /\ ret' = [kind |-> "final_text", text |-> texts]
                   /\ UNCHANGED <<messages, invocations>>
              ELSE \E o \in CallOutcomes :
                   LET name == response[k]
                       log == Append(invocations, Invocation(name, o, model_calls, "loop"))
                   IN  IF o = "raise"
                       THEN /\ ExceptHandler(log)
                            /\ UNCHANGED messages
                       ELSE /\ invocations' = log
                            /\ messages' = messages \o <<AssistantMsg(model_calls),
                                                         ToolResultMsg(model_calls)>>
                            /\ tpc' = "call_model"
                            /\ UNCHANGED ret
    /\ response' = <<>>
    /\ UNCHANGED <<client, pending, post_tool_count, model_calls, model_error,
                   thread_ts, channel_id, enable_tool_use>>
    /\ UNCHANGED notTurn

\* the tool_use blocks of a response, in order (claude.py 552-559)
RECURSIVE ToolUses(_)
ToolUses(r) ==
    IF r = <<>> THEN <<>>
    ELSE IF Head(r) = "text" THEN ToolUses(Tail(r))
    ELSE <<Head(r)>> \o ToolUses(Tail(r))

\* claude.py 608-612: the fixed error response of claude_mcp_request
ErrorResponse == [kind |-> "fixed_apology", text |-> <<"I'm having trouble processing your request.">>]

\* claude.py 423-472, ToolExecution.execute_tool: every exception is caught
\* and turned into an error string; a name it does not know gives
\* "Unknown tool"
ExecuteToolOutcomes(name) ==
    IF name = "search" THEN {"ok", "error"} ELSE {"unknown"}

\* claude.py 536-566 and 604-612: the first model call of claude_mcp_request
ClaudeRequest ==
    /\ client = "claude_mcp_request"
    /\ tpc = "call_model"
    /\ model_calls' = model_calls + 1
    /\ \/ \E r \in Responses :
            IF enable_tool_use /\ ToolUses(r) # <<>>
            THEN /\ messages' = Append(messages, AssistantMsg(model_calls + 1))
                 /\ pending' = ToolUses(r)
                 /\ response' = r
                 /\ tpc' = "tools"
                 /\ UNCHANGED <<ret, model_error>>
            ELSE /\ tpc' = "returned"
                 /\ ret' = [kind |-> "response", text |-> SelectSeq(r, LAMBDA b : b = "text")]
                 /\ response' = r
                 /\ UNCHANGED <<messages, pending, model_error>>
       \/ /\ model_error' = TRUE
          /\ tpc' = "returned"
          /\ ret' = ErrorResponse
          /\ UNCHANGED <<messages, pending, response>>
    /\ UNCHANGED <<client, final_text, post_tool_count, invocations, thread_ts,
                   channel_id, enable_tool_use>>
    /\ UNCHANGED notTurn

\* the collected tool uses executed all at once, as a gather over them
\* would, their results recorded afterwards
ClaudeExecuteToolsGathered ==
    /\ client = "claude_mcp_request"
    /\ tpc = "tools"
    /\ pending # <<>>
    /\ \E o \in ExecuteToolOutcomes("search") :
         LET base == Len(invocations)
             n == Len(pending)
         IN  /\ invocations' = invocations \o
                   [k \in 1..n |-> Invocation(pending[k], o, base + k, "loop")]
             /\ messages' = messages \o [k \in 1..n |-> ToolResultMsg(base + k)]
    /\ pending' = <<>>
    /\ UNCHANGED <<client, tpc, response, final_text, post_tool_count, model_calls,
                   model_error, ret, thread_ts, channel_id, enable_tool_use>>
    /\ UNCHANGED notTurn

\* claude.py 569-593: one iteration of the loop over the collected tool uses
ClaudeExecuteTool ==
    /\ client = "claude_mcp_request"
    /\ tpc = "tools"
    /\ pending # <<>>
    /\ LET name == Head(pending)
           id == Len(invocations) + 1
       IN  \E o \in ExecuteToolOutcomes(name) :
           /\ invocations' = Append(invocations, Invocation(name, o, id, "loop"))
           /\ messages' = Append(messages, ToolResultMsg(id))
    /\ pending' = Tail(pending)
    /\ UNCHANGED <<client, tpc, response, final_text, post_tool_count, model_calls,
                   model_error, ret, thread_ts, channel_id, enable_tool_use>>
    /\ UNCHANGED notTurn

\* claude.py 595-602: the second model call, made with the tool results
ClaudeFinalCall ==
    /\ client = "claude_mcp_request"
    /\ tpc = "tools"
    /\ pending = <<>>
    /\ model_calls' = model_calls + 1
    /\ tpc' = "returned"
    /\ \/ \E r \in Responses :
            /\ ret' = [kind |-> "response", text |-> SelectSeq(r, LAMBDA b : b = "text")]
            /\ response' = r
            /\ UNCHANGED model_error
       \/ /\ model_error' = TRUE
          /\ ret' = ErrorResponse
          /\ UNCHANGED response
    /\ UNCHANGED <<client, pending, messages, final_text, post_tool_count, invocations,
                   thread_ts, channel_id, enable_tool_use>>
    /\ UNCHANGED notTurn

TurnNext ==
    \/ CallModel
    \/ ProcessResponseNew
    \/ ProcessResponseSlack
    \/ ClaudeRequest
    \/ ClaudeExecuteTool
    \/ ClaudeFinalCall


(***************************************************************************)
(* Part 2.  Google Drive ingestion: the manager of the service             *)
(* (src/services/knowledge/datasources/gdrive.py with                      *)
(* document_processor.py and vector_db.py) and the stand-alone script      *)
(* (gdrive_scraping/main.py, sync.py, vectorstore/chroma.py).              *)
(***************************************************************************)
Files == 1..NumFiles

\* a file that has no entry in the sync file
Absent == -1
\* the empty string, smaller than every modifiedTime
EmptyTime == 0

\* texts an extractor may return for a file: one the chunker makes no chunk
\* of ("blank": only blank paragraphs) and one it makes two chunks of.
\* "empty" is the empty string, which is also what an extractor of gdrive.py
\* returns when it fails
Texts == {"blank", "long"}

\* number of chunks the chunker makes of a text; the error text that
\* get_file_content returns as content is a short text
NumChunks(text) ==
    CASE text = "empty" -> 0
      [] text = "blank" -> 0
      [] text = "long" -> 2
      [] text = "error_text" -> 1

\* the max_files argument of sync_all_files: 0 stands for None
MaxFilesArgs == {0, 1}

Programs == {"GoogleDriveManager", "gdrive_scraping"}

NoJob == [id |-> 0, modifiedTime |-> EmptyTime, content |-> "empty", ver |-> 0,
          chunk_ids |-> {}, stored |-> FALSE, mode |-> "none"]

Min(a, b) == IF a < b THEN a ELSE b

SyncInit ==
    /\ io_errors = 0 /\ call = <<>> /\ last_commit = <<>> /\ found = <<>>
    /\ doc_content = <<>> /\ chunk_size = 1 /\ chunk_overlap = 1 /\ chunked = <<>>
    /\ site_kind = <<>> /\ current_crawls = {} /\ last_crawl_times = {}
    /\ crawl = [pc |-> "off"] /\ crawls = 0 /\ fc_is_running = FALSE
    /\ scheduler_thread = 0 /\ thread = <<>>
    /\ prog \in Programs
    /\ drive = [f \in Files |-> 1]
    /\ synced = [f \in Files |-> Absent]
    /\ collection = {}
    /\ spc = "idle"
    /\ files_to_update = <<>>
    /\ job = NoJob
    /\ synced_count = 0
    /\ result = {}
    /\ delta = {}
    /\ outcome = [f \in Files |-> "none"]
    /\ singles = 0
    \* no conversation turn runs
    /\ client = "MCPClient" /\ tpc = "returned" /\ response = <<>> /\ pending = <<>>
    /\ messages = <<>> /\ final_text = <<>> /\ post_tool_count = 0
    /\ invocations = <<>> /\ model_calls = 0 /\ model_error = FALSE
    /\ ret = [kind |-> "none", text |-> <<>>]
    /\ thread_ts = FALSE /\ channel_id = FALSE /\ enable_tool_use = FALSE
    \* no web sync runs
    /\ is_running = FALSE /\ task = [t \in 0..MaxManual |-> [pc |-> "off"]]
    /\ pages = [u \in 1..NumUrls |-> "blank"]
    /\ web_docs = {} /\ passes = 0 /\ last_pass = "none"

RECURSIVE Edits(_)
Edits(fs) ==
    IF fs = {} THEN 0
    ELSE LET f == CHOOSE x \in fs : TRUE
         IN  (drive[f] - 1) + Edits(fs \ {f})

\* the owner of a file edits it in Google Drive: its modifiedTime grows
ModifyFile(f) ==
    /\ Edits(Files) < MaxEdits
    /\ drive' = [drive EXCEPT ![f] = drive[f] + 1]
    /\ UNCHANGED <<prog, synced, collection, spc, files_to_update, job, synced_count,
                   result, delta, outcome, singles>>
    /\ UNCHANGED notSync

\* the files().list answer, as a sequence of file metadata
RECURSIVE Listing(_)
Listing(fs) ==
    IF fs = {} THEN <<>>
    ELSE LET f == CHOOSE x \in fs : \A y \in fs : x <= y
         IN  <<[id |-> f, modifiedTime |-> drive[f]]>> \o Listing(fs \ {f})

\* the filter with "greater or equal" in place of "greater"
NeedsUpdateInclusive(file) ==
    synced[file.id] = Absent \/ file.modifiedTime >= synced[file.id]

\* gdrive.py 270-275, sync.py 34-38: keep a listed file when it has no entry
\* in the sync file or its modifiedTime is greater than the entry
NeedsUpdate(file) ==
    synced[file.id] = Absent \/ file.modifiedTime > synced[file.id]

GetFilesToUpdate == SelectSeq(Listing(Files), NeedsUpdate)

SeqIds(fs) == {fs[i].id : i \in DOMAIN fs}

\* take the next listed file, or finish the pass and return
NextFile(rest, count) ==
    IF rest = <<>>
    THEN /\ spc' = "done"
         /\ job' = NoJob
         /\ files_to_update' = <<>>
         /\ result' = IF prog = "GoogleDriveManager" THEN {<<"succeeded", count>>} ELSE {}
    ELSE /\ spc' = "fetch"
         /\ job' = [NoJob EXCEPT !.id = Head(rest).id,
                                 !.modifiedTime = Head(rest).modifiedTime,
                                 !.mode = "pass"]
         /\ files_to_update' = Tail(rest)
         /\ UNCHANGED result

\* an ingestion that ends without a commit: process_file_to_vector_db
\* returns False, main.py logs the exception and goes on
ItemFailed ==
    /\ outcome' = IF job.mode = "pass" THEN [outcome EXCEPT ![job.id] = "failed"] ELSE outcome
    /\ UNCHANGED synced_count
    /\ IF job.mode = "pass"
       THEN NextFile(files_to_update, synced_count)
       ELSE /\ spc' = "idle"
            /\ job' = NoJob
            /\ UNCHANGED <<files_to_update, result>>

\* gdrive.py 695-731: sync_all_files up to its for-loop
SyncAllFiles ==
    /\ prog = "GoogleDriveManager"
    /\ spc = "idle"
    /\ \E max_files \in MaxFilesArgs :
         LET listed == GetFilesToUpdate
             files == IF max_files # 0 THEN SubSeq(listed, 1, Min(max_files, Len(listed)))
                      ELSE listed
         IN  /\ delta' = SeqIds(files)
             /\ outcome' = [f \in Files |-> "none"]
             /\ synced_count' = 0
             /\ NextFile(files, 0)
    /\ UNCHANGED <<prog, drive, synced, collection, singles>>
    /\ UNCHANGED notSync

\* the caller has the value the pass returned (gdrive.py 721, 731; the end
\* of main() in main.py)
PassReturned ==
    /\ spc = "done"
    /\ spc' = "idle"
    /\ result' = {}
    /\ delta' = {}
    /\ outcome' = [f \in Files |-> "none"]
    /\ synced_count' = 0
    /\ UNCHANGED <<prog, drive, synced, collection, files_to_update, job, singles>>
    /\ UNCHANGED notSync

\* the fetch with a failure that commits the watermark all the same
GetFileContentFailureCommits ==
    /\ prog = "GoogleDriveManager"
    /\ spc = "fetch"
    /\ \E content \in Texts \cup {"empty"} :
             IF content = "empty"
             THEN /\ ItemFailed
                  /\ synced' = [synced EXCEPT ![job.id] = job.modifiedTime]
             ELSE /\ job' = [job EXCEPT !.content = content,
                                        !.ver = drive[job.id]]
                  /\ spc' = "store"
                  /\ UNCHANGED <<files_to_update, synced_count, result, outcome, synced>>
    /\ UNCHANGED <<prog, drive, collection, delta, singles>>
    /\ UNCHANGED notSync

\* gdrive.py 566-611 called from 655 with the listed metadata: the extractor
\* returns the file's text, or "" when it fails; "" ends the ingestion (657-659)
GetFileContent ==
    /\ prog = "GoogleDriveManager"
    /\ spc = "fetch"
    /\ \E content \in Texts \cup {"empty"} :
             IF content = "empty"
             THEN ItemFailed
             ELSE /\ job' = [job EXCEPT !.content = content,
                                        !.ver = drive[job.id]]
                  /\ spc' = "store"
                  /\ UNCHANGED <<files_to_update, synced_count, result, outcome>>
    /\ UNCHANGED <<prog, drive, synced, collection, delta, singles>>
    /\ UNCHANGED notSync

\* routes 339-362 -> gdrive.py 638-659 with no metadata: get_file_content
\* reads the metadata itself; when that raises it returns the error text as
\* content together with empty metadata
SyncFile(f) ==
    /\ prog = "GoogleDriveManager"
    /\ spc = "idle"
    /\ singles < MaxSingle
    /\ singles' = singles + 1
    /\ \/ \* the metadata request raises (609-611)
          /\ job' = [NoJob EXCEPT !.id = f, !.modifiedTime = EmptyTime,
                                  !.content = "error_text", !.mode = "single"]
          /\ spc' = "store"
       \/ \* metadata read; the extractor returns the text or ""
          \E content \in Texts \cup {"empty"} :
                IF content = "empty"
                THEN /\ spc' = "idle"
                     /\ job' = NoJob
                ELSE /\ job' = [NoJob EXCEPT !.id = f,
                                             !.modifiedTime = drive[f],
                                             !.content = content,
                                             !.ver = drive[f],
                                             !.mode = "single"]
                     /\ spc' = "store"
    /\ UNCHANGED <<prog, drive, synced, collection, files_to_update, synced_count,
                   result, delta, outcome>>
    /\ UNCHANGED notSync

\* document_processor.py 101 and 120: the chunk_id written into the metadata
\* of a chunk, "<doc_id>_<chunk_index>"; it is not the id of the record
MetaChunkId(c) == <<c.doc, c.chunk_index>>

\* copies of a chunk already in the collection
Copies(f, ver, i) ==
    Cardinality({c \in collection : c.doc = f /\ c.ver = ver /\ c.chunk_index = i})

\* the chunks process_document hands to the collection: chunk_index counted
\* from 1 (document_processor.py 102) and a fresh uuid4 id each
\* (vector_db.py 86-87).  A uuid4 value is written as the serial number of
\* the copy it names, which no stored chunk has
NewChunks(f, ver, n) ==
    {[id |-> <<"uuid", f, ver, i, Copies(f, ver, i) + 1>>, doc |-> f,
      chunk_index |-> i, ver |-> ver] : i \in 1..n}

\* the store step with the failure of collection.add swallowed: the
\* ingestion goes on to the commit although nothing was stored
ProcessDocumentSwallowsFailure ==
    /\ prog = "GoogleDriveManager"
    /\ spc = "store"
    /\ spc' = "commit"
    /\ UNCHANGED <<job, collection, files_to_update, synced_count, result, outcome>>
    /\ UNCHANGED <<prog, drive, synced, delta, singles>>
    /\ UNCHANGED notSync

\* gdrive.py 680-683 -> document_processor.py 25-66 -> vector_db.py 64-103
ProcessDocument ==
    /\ prog = "GoogleDriveManager"
    /\ spc = "store"
    /\ LET n == NumChunks(job.content)
           chunks == NewChunks(job.id, job.ver, n)
       IN  IF n = 0
           THEN \* add_documents returns [] without touching the collection
                /\ job' = [job EXCEPT !.stored = TRUE]
                /\ spc' = "commit"
                /\ UNCHANGED <<collection, files_to_update, synced_count,
                               result, outcome>>
           ELSE \/ \* collection.add succeeds
                   /\ collection' = collection \cup chunks
                   /\ job' = [job EXCEPT !.stored = TRUE,
                                         !.chunk_ids = {c.id : c \in chunks}]
                   /\ spc' = "commit"
                   /\ UNCHANGED <<files_to_update, synced_count, result, outcome>>
                \/ \* collection.add raises; the exception ends the ingestion
                   /\ ItemFailed
                   /\ UNCHANGED collection
    /\ UNCHANGED <<prog, drive, synced, delta, singles>>
    /\ UNCHANGED notSync

\* gdrive.py 148-158 called from 686, then 689 and 727-728
MarkFileSynced ==
    /\ prog = "GoogleDriveManager"
    /\ spc = "commit"
    /\ synced' = [synced EXCEPT ![job.id] = job.modifiedTime]
    /\ IF job.mode = "pass"
       THEN /\ outcome' = [outcome EXCEPT ![job.id] = "ok"]
            /\ synced_count' = synced_count + 1
            /\ NextFile(files_to_update, synced_count + 1)
       ELSE /\ spc' = "idle"
            /\ job' = NoJob
            /\ UNCHANGED <<outcome, synced_count, files_to_update, result>>
    /\ UNCHANGED <<prog, drive, collection, delta, singles>>
    /\ UNCHANGED notSync

\* gdrive.py 148-158 when the sync file cannot be read or written.
\* _load_synced_files (119-133) answers a failed read with {}, so the write
\* that follows keeps the entry of this file only; _save_synced_files
\* (135-146) logs a failed write and returns.  Either way
\* process_file_to_vector_db returns True and the pass goes on
MarkFileSyncedIoError ==
    /\ prog = "GoogleDriveManager"
    /\ spc = "commit"
    /\ io_errors < MaxIoErrors
    /\ io_errors' = io_errors + 1
    /\ \/ \* the read fails, the write succeeds
          synced' = [f \in Files |-> IF f = job.id THEN job.modifiedTime ELSE Absent]
       \/ \* the write fails
          UNCHANGED synced
    /\ IF job.mode = "pass"
       THEN /\ outcome' = [outcome EXCEPT ![job.id] = "sync_state_error"]
            /\ synced_count' = synced_count + 1
            /\ NextFile(files_to_update, synced_count + 1)
       ELSE /\ spc' = "idle"
            /\ job' = NoJob
            /\ UNCHANGED <<outcome, synced_count, files_to_update, result>>
    /\ UNCHANGED <<prog, drive, collection, delta, singles>>
    /\ UNCHANGED <<turnVars, webVars, concVars, searchVars, chunkVars, crawlVars>>

\* main.py 29-34 with sync.py 21-44: main() up to its for-loop
ScriptMain ==
    /\ prog = "gdrive_scraping"
    /\ spc = "idle"
    /\ LET files == GetFilesToUpdate
       IN  /\ delta' = SeqIds(files)
           /\ outcome' = [f \in Files |-> "none"]
           /\ NextFile(files, 0)
    /\ UNCHANGED <<prog, drive, synced, collection, synced_count, singles>>
    /\ UNCHANGED notSync

\* main.py 44-48 and 53-54: the extractor returns the file's text or raises
ScriptExtract ==
    /\ prog = "gdrive_scraping"
    /\ spc = "fetch"
    /\ \/ \E text \in Texts \cup {"empty"} :
            /\ job' = [job EXCEPT !.content = text, !.ver = drive[job.id]]
            /\ spc' = "store"
            /\ UNCHANGED <<files_to_update, synced_count, result, outcome>>
       \/ ItemFailed
    /\ UNCHANGED <<prog, drive, synced, collection, delta, singles>>
    /\ UNCHANGED notSync

\* chroma.py 15-26: the chunk the i-th iteration of store_chunks adds
FileChunk(f, ver, i) ==
    [id |-> <<"file_id_i", f, 0, i, 0>>, doc |-> f, chunk_index |-> i, ver |-> ver]

\* collection.add of a persistent Chroma client leaves a stored record alone
\* when its id is added again
CollectionAdd(coll, chunk) ==
    IF \E c \in coll : c.id = chunk.id THEN coll ELSE coll \cup {chunk}

RECURSIVE AddAll(_, _)
AddAll(coll, chunks) ==
    IF chunks = {} THEN coll
    ELSE LET c == CHOOSE x \in chunks : TRUE
         IN  AddAll(CollectionAdd(coll, c), chunks \ {c})

\* main.py 48-51 with chroma.py 15-26: chunk the text and add the chunks one
\* by one; an add that raises leaves the earlier chunks in the collection
StoreChunks ==
    /\ prog = "gdrive_scraping"
    /\ spc = "store"
    /\ LET n == NumChunks(job.content)
       IN  \E k \in 0..n :
             LET added == {FileChunk(job.id, job.ver, i) : i \in 0..(k-1)}
             IN  /\ collection' = AddAll(collection, added)
                 /\ IF k = n
                    THEN /\ job' = [job EXCEPT !.stored = TRUE,
                                               !.chunk_ids = {c.id : c \in added}]
                         /\ spc' = "commit"
                         /\ UNCHANGED <<files_to_update, synced_count, result, outcome>>
                    ELSE ItemFailed
    /\ UNCHANGED <<prog, drive, synced, delta, singles>>
    /\ UNCHANGED notSync

\* sync.py 46-49 called from main.py 52
ScriptMarkFileSynced ==
    /\ prog = "gdrive_scraping"
    /\ spc = "commit"
    /\ synced' = [synced EXCEPT ![job.id] = job.modifiedTime]
    /\ outcome' = [outcome EXCEPT ![job.id] = "ok"]
    /\ NextFile(files_to_update, 0)
    /\ UNCHANGED <<prog, drive, collection, delta, synced_count, singles>>
    /\ UNCHANGED notSync

\* sync.py 46-49 when load_synced (11-15) or save_synced (17-19) raises: the
\* except of main.py 53-54 logs a warning and the loop goes on with the next
\* file
ScriptMarkFileSyncedRaises ==
    /\ prog = "gdrive_scraping"
    /\ spc = "commit"
    /\ io_errors < MaxIoErrors
    /\ io_errors' = io_errors + 1
    /\ outcome' = [outcome EXCEPT ![job.id] = "sync_state_error"]
    /\ NextFile(files_to_update, 0)
    /\ UNCHANGED <<prog, drive, synced, collection, delta, synced_count, singles>>
    /\ UNCHANGED <<turnVars, webVars, concVars, searchVars, chunkVars, crawlVars>>

SyncNext ==
    \/ \E f \in Files : ModifyFile(f)
    \/ SyncAllFiles
    \/ PassReturned
    \/ GetFileContent
    \/ \E f \in Files : SyncFile(f)
    \/ ProcessDocument
    \/ MarkFileSynced
    \/ ScriptMain
    \/ ScriptExtract
    \/ StoreChunks
    \/ ScriptMarkFileSynced

\* the ingestion with the failures of the sync file
SyncIoNext ==
    \/ \E f \in Files : ModifyFile(f)
    \/ SyncAllFiles
    \/ PassReturned
    \/ GetFileContent
    \/ \E f \in Files : SyncFile(f)
    \/ ProcessDocument
    \/ MarkFileSynced
    \/ MarkFileSyncedIoError
    \/ ScriptMain
    \/ ScriptExtract
    \/ StoreChunks
    \/ ScriptMarkFileSynced
    \/ ScriptMarkFileSyncedRaises

(***************************************************************************)
(* Part 2b.  Calls of process_file_to_vector_db in flight together: the    *)
(* background task of POST /gdrive/sync runs sync_all_files while the      *)
(* route POST /gdrive/file/{file_id} serves a request, both on the event   *)
(* loop of the service.  A call gives way to the other at its awaits only. *)
(***************************************************************************)
\* knowledge_routes.py 326-331 (background sync_all_files) and 339-351
Callers == {"sync_all_files", "sync_google_drive_file"}

NoCall == [pc |-> "idle", id |-> 0, modifiedTime |-> EmptyTime,
           seen |-> [f \in Files |-> Absent]]

CommitInit ==
    /\ io_errors = 0 /\ found = <<>>
    /\ doc_content = <<>> /\ chunk_size = 1 /\ chunk_overlap = 1 /\ chunked = <<>>
    /\ site_kind = <<>> /\ current_crawls = {} /\ last_crawl_times = {}
    /\ crawl = [pc |-> "off"] /\ crawls = 0 /\ fc_is_running = FALSE
    /\ scheduler_thread = 0 /\ thread = <<>>
    /\ call = [c \in Callers |-> NoCall]
    /\ last_commit = [f \in Files |-> Absent]
    /\ prog = "GoogleDriveManager"
    /\ drive = [f \in Files |-> 1]
    /\ synced = [f \in Files |-> Absent]
    /\ collection = {}
    /\ spc = "off"
    /\ files_to_update = <<>>
    /\ job = [id |-> 0, mode |-> "none"]
    /\ synced_count = 0 /\ result = {} /\ delta = {}
    /\ outcome = [f \in Files |-> "none"]
    /\ singles = 0
    \* no conversation turn runs
    /\ client = "MCPClient" /\ tpc = "returned" /\ response = <<>> /\ pending = <<>>
    /\ messages = <<>> /\ final_text = <<>> /\ post_tool_count = 0
    /\ invocations = <<>> /\ model_calls = 0 /\ model_error = FALSE
    /\ ret = [kind |-> "none", text |-> <<>>]
    /\ thread_ts = FALSE /\ channel_id = FALSE /\ enable_tool_use = FALSE
    \* no web sync runs
    /\ is_running = FALSE /\ task = [t \in 0..MaxManual |-> [pc |-> "off"]]
    /\ pages = [u \in 1..NumUrls |-> "blank"]
    /\ web_docs = {} /\ passes = 0 /\ last_pass = "none"

\* what the steps of a call leave alone
notCall == <<turnVars, webVars, faultVars, searchVars, chunkVars, crawlVars, prog, collection, spc, files_to_update,
             job, synced_count, result, delta, outcome, singles>>

\* gdrive.py 726 (a stale file of the listing, with its listed metadata) and
\* knowledge_routes.py 351 (any file id, no metadata): the call begins.
\* seen keeps the sync file as it is when the call begins
CallProcessFile(c, f) ==
    /\ call[c].pc = "idle"
    /\ c = "sync_all_files" => NeedsUpdate([id |-> f, modifiedTime |-> drive[f]])
    /\ call' = [call EXCEPT ![c] = [pc |-> "fetch", id |-> f,
                                    modifiedTime |-> drive[f], seen |-> synced]]
    /\ UNCHANGED <<drive, synced, last_commit>>
    /\ UNCHANGED notCall

\* gdrive.py 655-659: await get_file_content.  The call of the route reads
\* the metadata now; a failed metadata request leaves modifiedTime ""
CallGetFileContent(c) ==
    /\ call[c].pc = "fetch"
    /\ \/ \* the extractor returns "": the call returns False
          call' = [call EXCEPT ![c] = NoCall]
       \/ call' = [call EXCEPT ![c].pc = "store",
                               ![c].modifiedTime =
                                   IF c = "sync_all_files" THEN @ ELSE drive[call[c].id]]
       \/ /\ c = "sync_google_drive_file"
          /\ call' = [call EXCEPT ![c].pc = "store", ![c].modifiedTime = EmptyTime]
    /\ UNCHANGED <<drive, synced, last_commit>>
    /\ UNCHANGED notCall

\* gdrive.py 680-683: await process_document; when it raises the call
\* returns False (691-693)
CallProcessDocument(c) ==
    /\ call[c].pc = "store"
    /\ \/ call' = [call EXCEPT ![c].pc = "commit"]
       \/ call' = [call EXCEPT ![c] = NoCall]
    /\ UNCHANGED <<drive, synced, last_commit>>
    /\ UNCHANGED notCall

\* a commit that writes back the sync file it loaded when the call began
CallMarkFileSyncedFromEarlyLoad(c) ==
    /\ call[c].pc = "commit"
    /\ synced' = [call[c].seen EXCEPT ![call[c].id] = call[c].modifiedTime]
    /\ last_commit' = [last_commit EXCEPT ![call[c].id] = call[c].modifiedTime]
    /\ call' = [call EXCEPT ![c].pc = "returned"]
    /\ UNCHANGED drive
    /\ UNCHANGED notCall

\* gdrive.py 686 with 148-158: load the sync file, set the entry, save it,
\* with no await in between; then return True (689)
CallMarkFileSynced(c) ==
    /\ call[c].pc = "commit"
    /\ synced' = [synced EXCEPT ![call[c].id] = call[c].modifiedTime]
    /\ last_commit' = [last_commit EXCEPT ![call[c].id] = call[c].modifiedTime]
    /\ call' = [call EXCEPT ![c].pc = "returned"]
    /\ UNCHANGED drive
    /\ UNCHANGED notCall

\* gdrive.py 727-728, knowledge_routes.py 352-356: the caller has the True
CallReturned(c) ==
    /\ call[c].pc = "returned"
    /\ call' = [call EXCEPT ![c] = NoCall]
    /\ UNCHANGED <<drive, synced, last_commit>>
    /\ UNCHANGED notCall

\* the owner of a file edits it while calls are in flight
CallModifyFile(f) ==
    /\ Edits(Files) < MaxEdits
    /\ drive' = [drive EXCEPT ![f] = drive[f] + 1]
    /\ UNCHANGED <<call, synced, last_commit>>
    /\ UNCHANGED notCall

CommitNext ==
    \/ \E c \in Callers, f \in Files : CallProcessFile(c, f)
    \/ \E c \in Callers : CallGetFileContent(c)
    \/ \E c \in Callers : CallProcessDocument(c)
    \/ \E c \in Callers : CallMarkFileSynced(c)
    \/ \E c \in Callers : CallReturned(c)
    \/ \E f \in Files : CallModifyFile(f)

(***************************************************************************)
(* Part 3.  Web content sync (src/services/knowledge/web_content_sync.py)  *)
(* as main.py starts it and as the knowledge routes trigger it.            *)
(***************************************************************************)
Urls == 1..NumUrls

\* the task start_scheduled_sync creates for _sync_task_loop
SyncTask == 0
\* the tasks running manual_sync: the one of the startup, those of the route
ManualTasks == 1..MaxManual
Tasks == {SyncTask} \cup ManualTasks

NoPass == [pc |-> "idle", todo |-> {}, success_count |-> 0, error_count |-> 0,
           added |-> 0, after_full |-> FALSE]

WebInit ==
    /\ io_errors = 0 /\ call = <<>> /\ last_commit = <<>> /\ found = <<>>
    /\ doc_content = <<>> /\ chunk_size = 1 /\ chunk_overlap = 1 /\ chunked = <<>>
    /\ site_kind = <<>> /\ current_crawls = {} /\ last_crawl_times = {}
    /\ crawl = [pc |-> "off"] /\ crawls = 0 /\ fc_is_running = FALSE
    /\ scheduler_thread = 0 /\ thread = <<>>
    /\ is_running = FALSE
    /\ task = [t \in Tasks |-> IF t = SyncTask THEN [NoPass EXCEPT !.pc = "unstarted"]
                               ELSE NoPass]
    /\ pages \in [Urls -> Texts]
    /\ web_docs = {}
    /\ passes = 0
    /\ last_pass = "none"
    \* no conversation turn runs
    /\ client = "MCPClient" /\ tpc = "returned" /\ response = <<>> /\ pending = <<>>
    /\ messages = <<>> /\ final_text = <<>> /\ post_tool_count = 0
    /\ invocations = <<>> /\ model_calls = 0 /\ model_error = FALSE
    /\ ret = [kind |-> "none", text |-> <<>>]
    /\ thread_ts = FALSE /\ channel_id = FALSE /\ enable_tool_use = FALSE
    \* no Drive ingestion runs
    /\ prog = "GoogleDriveManager" /\ drive = [f \in 1..NumFiles |-> 1]
    /\ synced = [f \in 1..NumFiles |-> -1]
    /\ collection = {} /\ spc = "off" /\ files_to_update = <<>>
    /\ job = [id |-> 0, mode |-> "none"]
    /\ synced_count = 0 /\ result = {} /\ delta = {}
    /\ outcome = [f \in 1..NumFiles |-> "none"] /\ singles = 0

\* where a task goes when sync_all_urls has returned: the loop sleeps
\* (web_content_sync.py 255), a manual sync is over
AfterPass(t) == IF t = SyncTask THEN "sleep" ELSE "idle"

\* web_content_sync.py 176-209: sync_all_urls up to the gather of the tasks
\* of the URLs.  The service keeps no record of what it has synced
SyncAllUrls(t) ==
    /\ passes < MaxPasses
    /\ passes' = passes + 1
    /\ \/ \* the web fetch server does not start (198-205)
          /\ task' = [task EXCEPT ![t] = [NoPass EXCEPT !.pc = AfterPass(t)]]
          /\ last_pass' = "error"
       \/ /\ task' = [task EXCEPT ![t] =
                        [NoPass EXCEPT !.pc = "gather", !.todo = Urls,
                                       !.after_full =
                                          /\ last_pass = "full"
                                          /\ \A o \in Tasks : task[o].pc # "gather"]]
          /\ UNCHANGED last_pass
    /\ UNCHANGED <<is_running, pages, web_docs>>

\* web_content_sync.py 257-265 called from main.py 421
StartScheduledSync ==
    /\ task[SyncTask].pc = "unstarted"
    /\ IF is_running
       THEN task' = [task EXCEPT ![SyncTask].pc = "idle"]
       ELSE task' = [task EXCEPT ![SyncTask].pc = "loop"]
    /\ is_running' = TRUE
    /\ UNCHANGED <<pages, web_docs, passes, last_pass>>
    /\ UNCHANGED notWeb

\* web_content_sync.py 244-249: one iteration of _sync_task_loop begins
SyncTaskLoop ==
    /\ task[SyncTask].pc = "loop"
    /\ is_running
    /\ SyncAllUrls(SyncTask)
    /\ UNCHANGED notWeb

\* web_content_sync.py 255: the sleep between two scheduled passes is over
SleepDone ==
    /\ task[SyncTask].pc = "sleep"
    /\ task' = [task EXCEPT ![SyncTask].pc = "loop"]
    /\ UNCHANGED <<is_running, pages, web_docs, passes, last_pass>>
    /\ UNCHANGED notWeb

\* web_content_sync.py 280-288 called from main.py 424 and from
\* knowledge_routes.py 169: nothing looks at a pass in progress
ManualSync(m) ==
    /\ task[m].pc = "idle"
    /\ SyncAllUrls(m)
    /\ UNCHANGED notWeb

\* the chunks fetch_and_process_url stores for a page: a fresh doc_id
\* "web_<uuid4>" (web_content_sync.py 99) and fresh chunk ids
\* (vector_db.py 86-87), written as the serial number of the copy
WebChunks(u, n) ==
    LET copy == Cardinality({c.doc_id : c \in {d \in web_docs : d.url = u}}) + 1
    IN  {[id |-> <<"uuid", u, copy, i>>, doc_id |-> <<"web_uuid", u, copy>>,
          url |-> u, chunk_index |-> i] : i \in 1..n}

\* web_content_sync.py 66-134: the task of one URL inside the gather
FetchAndProcessUrl(t, u) ==
    /\ task[t].pc = "gather"
    /\ u \in task[t].todo
    /\ \/ \* the fetch fails or process_document raises: an error result
          /\ task' = [task EXCEPT ![t].todo = @ \ {u},
                                  ![t].error_count = @ + 1]
          /\ UNCHANGED web_docs
       \/ \* the page is fetched, chunked and added
          LET n == NumChunks(pages[u])
          IN  /\ web_docs' = web_docs \cup WebChunks(u, n)
              /\ task' = [task EXCEPT ![t].todo = @ \ {u},
                                      ![t].success_count = @ + 1,
                                      ![t].added = @ + n]
    /\ UNCHANGED <<is_running, pages, passes, last_pass>>
    /\ UNCHANGED notWeb

\* web_content_sync.py 211-242: the gather is over, the summary is returned
SyncCompleted(t) ==
    /\ task[t].pc = "gather"
    /\ task[t].todo = {}
    /\ last_pass' = IF task[t].error_count = 0 THEN "full" ELSE "partial"
    /\ task' = [task EXCEPT ![t] = [NoPass EXCEPT !.pc = AfterPass(t)]]
    /\ UNCHANGED <<is_running, pages, web_docs, passes>>
    /\ UNCHANGED notWeb

WebNext ==
    \/ StartScheduledSync
    \/ SyncTaskLoop
    \/ SleepDone
    \/ \E m \in ManualTasks : ManualSync(m)
    \/ \E t \in Tasks : \E u \in Urls : FetchAndProcessUrl(t, u)
    \/ \E t \in Tasks : SyncCompleted(t)

(***************************************************************************)
(* Part 4.  The search tool over the collection "documents", which holds   *)
(* the chunks of the Drive files and of the web pages together.            *)
(***************************************************************************)
\* server.py 263: the values of the source argument
Sources == {"all", "web", "drive", "notion"}

\* filter_criteria = None: no where clause
NoFilter == [source |-> "None"]

\* the stored chunks with the source of their metadata: "google_drive"
\* (gdrive.py 669) and "web" (web_content_sync.py 104)
Stored ==
    {[id |-> c.id, source |-> "google_drive"] : c \in collection}
        \cup {[id |-> c.id, source |-> "web"] : c \in web_docs}

\* vector_db.py 123-127: collection.query with where = filter_criteria
\* answers the n_results nearest chunks among those whose metadata match;
\* which ones are nearest is left open
Search(filter_criteria, n_results) ==
    LET match == IF filter_criteria = NoFilter THEN Stored
                 ELSE {c \in Stored : c.source = filter_criteria.source}
    IN  {r \in SUBSET match :
            Cardinality(r) = Min(n_results, Cardinality(match))}

NoSearch == [by |-> "none", source |-> "all", ok |-> TRUE, results |-> {}]

\* the collection after any ingestions of whole documents of two chunks
SearchInit ==
    /\ io_errors = 0 /\ call = <<>> /\ last_commit = <<>>
    /\ doc_content = <<>> /\ chunk_size = 1 /\ chunk_overlap = 1 /\ chunked = <<>>
    /\ site_kind = <<>> /\ current_crawls = {} /\ last_crawl_times = {}
    /\ crawl = [pc |-> "off"] /\ crawls = 0 /\ fc_is_running = FALSE
    /\ scheduler_thread = 0 /\ thread = <<>>
    /\ found = NoSearch
    /\ \E fs \in SUBSET Files :
          collection = {[id |-> <<"uuid", f, 1, i, 1>>, doc |-> f,
                         chunk_index |-> i, ver |-> 1] : f \in fs, i \in 1..2}
    /\ \E us \in SUBSET Urls :
          web_docs = {[id |-> <<"uuid", u, 1, i>>, doc_id |-> <<"web_uuid", u, 1>>,
                       url |-> u, chunk_index |-> i] : u \in us, i \in 1..2}
    \* no Drive ingestion runs
    /\ prog = "GoogleDriveManager" /\ drive = [f \in Files |-> 1]
    /\ synced = [f \in Files |-> Absent]
    /\ spc = "off" /\ files_to_update = <<>>
    /\ job = [id |-> 0, mode |-> "none"]
    /\ synced_count = 0 /\ result = {} /\ delta = {}
    /\ outcome = [f \in Files |-> "none"] /\ singles = 0
    \* no conversation turn runs
    /\ client = "MCPClient" /\ tpc = "returned" /\ response = <<>> /\ pending = <<>>
    /\ messages = <<>> /\ final_text = <<>> /\ post_tool_count = 0
    /\ invocations = <<>> /\ model_calls = 0 /\ model_error = FALSE
    /\ ret = [kind |-> "none", text |-> <<>>]
    /\ thread_ts = FALSE /\ channel_id = FALSE /\ enable_tool_use = FALSE
    \* no web sync runs
    /\ is_running = FALSE /\ task = [t \in 0..MaxManual |-> [pc |-> "off"]]
    /\ pages = [u \in Urls |-> "blank"]
    /\ passes = 0 /\ last_pass = "none"

\* claude.py 233-319: the knowledge base is searched with a filter for
\* sources other than all, drive and web (262-264); the web content is
\* searched too when the source is all or web (303-306, web_content.py
\* 155-160); the text returned holds the results of both
ExecuteSearch(source) ==
    /\ LET filter_criteria == IF source # "all" /\ source # "drive" /\ source # "web"
                              THEN [source |-> source] ELSE NoFilter
       IN  \E kb \in Search(filter_criteria, 3) :
             \E web \in IF source = "all" \/ source = "web"
                        THEN Search([source |-> "web"], 3) ELSE {{}} :
                found' = [by |-> "execute_search", source |-> source,
                          ok |-> TRUE, results |-> kb \cup web]
    /\ UNCHANGED <<turnVars, syncVars, webVars, faultVars, concVars, chunkVars, crawlVars>>

\* server.py 407-469: the filter is the source itself unless it is all
\* (419-421).  The loop that formats the answer (432-456) goes over
\* search_results["documents"], which holds one list per query, and calls
\* .get on the list of metadatas of the query: that raises, and the except
\* (464-469) answers ok False without results
HandleRequestSearch(source) ==
    /\ LET filter_criteria == IF source # "all" THEN [source |-> source] ELSE NoFilter
       IN  \E r \in Search(filter_criteria, 5) :
                found' = [by |-> "handle_request", source |-> source,
                          ok |-> FALSE, results |-> {}]
    /\ UNCHANGED <<turnVars, syncVars, webVars, faultVars, concVars, chunkVars, crawlVars>>

SearchNext ==
    \/ \E source \in Sources : ExecuteSearch(source)
    \/ \E source \in Sources : HandleRequestSearch(source)

(***************************************************************************)
(* Part 5.  The chunker (DocumentProcessor._chunk_document in              *)
(* src/services/knowledge/document_processor.py).  A string is a sequence  *)
(* of characters.                                                          *)
(***************************************************************************)
\* the characters of a document: a letter, a space, a newline
Chars == {"a", " ", "\n"}

\* what \s of the regular expression and str.split() take for whitespace
IsSpace(c) == c \in {" ", "\n"}

Strings == UNION {[1..n -> Chars] : n \in 0..MaxLen}

\* the end of the match of \n\s*\n that begins at position i of s, 0 when
\* there is none: \s* takes the whole run of whitespace after s[i] and gives
\* back as far as the last newline of the run
MatchEnd(s, i) ==
    IF s[i] # "\n" THEN 0
    ELSE LET run == {j \in (i+1)..Len(s) : \A k \in (i+1)..j : IsSpace(s[k])}
             newlines == {j \in run : s[j] = "\n"}
         IN  IF newlines = {} THEN 0
             ELSE CHOOSE j \in newlines : \A k \in newlines : k <= j

\* document_processor.py 88: re.split(r'\n\s*\n', content)
RECURSIVE ReSplit(_)
ReSplit(s) ==
    LET starts == {i \in 1..Len(s) : MatchEnd(s, i) # 0}
    IN  IF starts = {} THEN <<s>>
        ELSE LET i == CHOOSE x \in starts : \A y \in starts : x <= y
             IN  <<SubSeq(s, 1, i - 1)>> \o ReSplit(SubSeq(s, MatchEnd(s, i) + 1, Len(s)))

\* document_processor.py 106: current_chunk.split(), the runs of characters
\* between whitespace
RECURSIVE SplitWords(_)
SplitWords(s) ==
    IF s = <<>> THEN <<>>
    ELSE IF IsSpace(s[1]) THEN SplitWords(Tail(s))
    ELSE LET ends == {j \in 1..Len(s) : \A k \in 1..j : ~IsSpace(s[k])}
             j == CHOOSE x \in ends : \A y \in ends : y <= x
         IN  <<SubSeq(s, 1, j)>> \o SplitWords(SubSeq(s, j + 1, Len(s)))

\* document_processor.py 108: " ".join(overlap_words)
RECURSIVE JoinWords(_)
JoinWords(ws) ==
    IF ws = <<>> THEN <<>>
    ELSE IF Len(ws) = 1 THEN ws[1]
    ELSE ws[1] \o <<" ">> \o JoinWords(Tail(ws))

\* document_processor.py 107: words[-min(chunk_overlap, len(words)):].  A
\* slice from -n takes the last n elements, and from -0, which is 0, all of
\* them
OverlapWords(ws, overlap) ==
    LET n == Min(overlap, Len(ws))
    IN  IF n = 0 THEN ws ELSE SubSeq(ws, Len(ws) - n + 1, Len(ws))

\* the paragraph is added with its last character dropped
AddParagraphTruncated(current_chunk, para) ==
    LET cut == SubSeq(para, 1, Len(para) - 1)
    IN  IF current_chunk # <<>> THEN current_chunk \o <<"\n", "\n">> \o cut ELSE cut

\* document_processor.py 111-114: add the paragraph to the current chunk
AddParagraph(current_chunk, para) ==
    IF current_chunk # <<>> THEN current_chunk \o <<"\n", "\n">> \o para ELSE para

\* the last chunk is added even when it is empty
LastChunkAlways(current_chunk) ==
    <<current_chunk>>

\* document_processor.py 117-123: the last chunk is added if it is not empty
LastChunk(current_chunk) ==
    IF current_chunk # <<>> THEN <<current_chunk>> ELSE <<>>

\* document_processor.py 94-123: the for-loop from paragraph i on and what
\* follows it.  done holds the chunks appended so far; closings records, for
\* every chunk the loop closed, the chunk, the text the next chunk was
\* started with and the paragraph that came next
RECURSIVE ChunkParagraphs(_, _, _, _, _, _, _)
ChunkParagraphs(paragraphs, i, done, closings, current_chunk, size, overlap) ==
    IF i > Len(paragraphs)
    THEN [chunks |-> done \o LastChunk(current_chunk),
          chunk_index |-> [k \in 1..Len(done \o LastChunk(current_chunk)) |-> k],
          closings |-> closings]
    ELSE LET para == paragraphs[i]
         IN  IF Len(current_chunk) + Len(para) > size /\ current_chunk # <<>>
             THEN LET seed == JoinWords(OverlapWords(SplitWords(current_chunk), overlap))
                  IN  ChunkParagraphs(paragraphs, i + 1,
                                      Append(done, current_chunk),
                                      Append(closings, [closed |-> current_chunk,
                                                        seed |-> seed, para |-> para]),
                                      AddParagraph(seed, para), size, overlap)
             ELSE ChunkParagraphs(paragraphs, i + 1, done, closings,
                                  AddParagraph(current_chunk, para), size, overlap)

\* document_processor.py 68-124
ChunkDocument(text, size, overlap) ==
    ChunkParagraphs(ReSplit(text), 1, <<>>, <<>>, <<>>, size, overlap)

\* any document and any arguments; no call made yet
ChunkInit ==
    /\ doc_content \in Strings
    /\ chunk_size \in 1..MaxChunkSize
    /\ chunk_overlap \in 0..MaxOverlap
    /\ chunked = <<>>
    /\ io_errors = 0 /\ call = <<>> /\ last_commit = <<>> /\ found = <<>>
    /\ site_kind = <<>> /\ current_crawls = {} /\ last_crawl_times = {}
    /\ crawl = [pc |-> "off"] /\ crawls = 0 /\ fc_is_running = FALSE
    /\ scheduler_thread = 0 /\ thread = <<>>
    \* no Drive ingestion runs
    /\ prog = "GoogleDriveManager" /\ drive = [f \in Files |-> 1]
    /\ synced = [f \in Files |-> Absent]
    /\ collection = {} /\ spc = "off" /\ files_to_update = <<>>
    /\ job = [id |-> 0, mode |-> "none"]
    /\ synced_count = 0 /\ result = {} /\ delta = {}
    /\ outcome = [f \in Files |-> "none"] /\ singles = 0
    \* no conversation turn runs
    /\ client = "MCPClient" /\ tpc = "returned" /\ response = <<>> /\ pending = <<>>
    /\ messages = <<>> /\ final_text = <<>> /\ post_tool_count = 0
    /\ invocations = <<>> /\ model_calls = 0 /\ model_error = FALSE
    /\ ret = [kind |-> "none", text |-> <<>>]
    /\ thread_ts = FALSE /\ channel_id = FALSE /\ enable_tool_use = FALSE
    \* no web sync runs
    /\ is_running = FALSE /\ task = [t \in 0..MaxManual |-> [pc |-> "off"]]
    /\ pages = [u \in Urls |-> "blank"]
    /\ web_docs = {} /\ passes = 0 /\ last_pass = "none"

\* a call that goes on from the buffer the call before it ended with
CallChunkDocumentKeepsBuffer ==
    /\ Len(chunked) < MaxChunkCalls
    /\ LET buffer == IF chunked = <<>> \/ chunked[Len(chunked)].chunks = <<>>
                     THEN <<>>
                     ELSE chunked[Len(chunked)].chunks[Len(chunked[Len(chunked)].chunks)]
       IN  chunked' = Append(chunked,
                             ChunkParagraphs(ReSplit(doc_content), 1, <<>>, <<>>, buffer,
                                             chunk_size, chunk_overlap))
    /\ UNCHANGED <<doc_content, chunk_size, chunk_overlap>>
    /\ UNCHANGED <<turnVars, syncVars, webVars, faultVars, concVars, searchVars, crawlVars>>

\* document_processor.py 53: process_document calls _chunk_document
CallChunkDocument ==
    /\ Len(chunked) < MaxChunkCalls
    /\ chunked' = Append(chunked, ChunkDocument(doc_content, chunk_size, chunk_overlap))
    /\ UNCHANGED <<doc_content, chunk_size, chunk_overlap>>
    /\ UNCHANGED <<turnVars, syncVars, webVars, faultVars, concVars, searchVars, crawlVars>>

ChunkNext ==
    \/ CallChunkDocument

(***************************************************************************)
(* Part 6.  The Firecrawl service                                          *)
(* (src/services/knowledge/datasources/firecrawl_manager.py): crawl_sites  *)
(* with its per-site guard current_crawls, and the scheduler thread that   *)
(* start_crawl_service creates.  One call of crawl_sites is in flight at a *)
(* time.                                                                   *)
(***************************************************************************)
Sites == 1..NumSites

\* kinds of entry under "sites" of the crawl configuration: a URL alone, a
\* URL with a mapping "params", no "url" key, a URL with a key "params"
\* that holds no mapping (`params:` left empty in the YAML file)
SiteKinds == {"plain", "params", "no_url", "malformed_params"}

\* site.get("url") of an entry that has one
Url(s) == <<"url", s>>

\* the URL rebuilt with the entry's params in its query (_crawl_site)
UrlWithParams(s) == <<"url?params", s>>

\* the default of sites[i].get("url", "Unknown")
Unknown == <<"Unknown", 0>>

HasUrl(s) == site_kind[s] # "no_url"

\* self.config.get("sites", [])
ConfigSites == [i \in Sites |-> i]

NoCrawl == [pc |-> "idle", sites |-> <<>>, tasks |-> <<>>, results |-> <<>>,
            started |-> {}]

Pending == [kind |-> "pending"]

\* the loop of crawl_sites that creates the tasks (lines 233-249)
RECURSIVE CreateTasks(_, _, _, _)
CreateTasks(sites, i, cc, tasks) ==
    IF i > Len(sites) THEN [current_crawls |-> cc, tasks |-> tasks]
    ELSE IF ~HasUrl(sites[i]) THEN CreateTasks(sites, i + 1, cc, tasks)
    ELSE IF Url(sites[i]) \in cc THEN CreateTasks(sites, i + 1, cc, tasks)
    ELSE CreateTasks(sites, i + 1, cc \cup {Url(sites[i])},
                     Append(tasks, sites[i]))

\* crawl_sites up to its await of asyncio.gather (lines 225-252)
CrawlSitesBegin(sites) ==
    LET made == CreateTasks(sites, 1, current_crawls, <<>>) IN
    /\ current_crawls' = made.current_crawls
    /\ crawl' = [pc |-> "gather", sites |-> sites, tasks |-> made.tasks,
                 results |-> [i \in 1..Len(made.tasks) |-> Pending],
                 started |-> {made.tasks[i] : i \in 1..Len(made.tasks)}]

\* what _crawl_site can end with for a site (lines 288-385): the params of
\* the entry are merged into site_url before the try, so a returned result
\* carries the rebuilt URL, and params that are no mapping raise
CrawlSiteOutcomes(s) ==
    CASE site_kind[s] = "plain" ->
           {[kind |-> "dict", status |-> st, url |-> Url(s)] :
                st \in {"success", "error"}}
      [] site_kind[s] = "params" ->
           {[kind |-> "dict", status |-> st, url |-> UrlWithParams(s)] :
                st \in {"success", "error"}}
      [] OTHER -> {[kind |-> "exception", status |-> "", url |-> Unknown]}

\* the loop of crawl_sites over the gathered results (lines 254-275)
RECURSIVE ProcessResults(_, _, _, _, _)
ProcessResults(sites, results, i, cc, lct) ==
    IF i > Len(results) THEN [current_crawls |-> cc, last_crawl_times |-> lct]
    ELSE IF results[i].kind = "exception"
    THEN LET site_url == IF HasUrl(sites[i]) THEN Url(sites[i]) ELSE Unknown
         IN ProcessResults(sites, results, i + 1, cc \ {site_url}, lct)
    ELSE ProcessResults(sites, results, i + 1, cc \ {results[i].url},
                        IF results[i].status = "success"
                        THEN lct \cup {results[i].url} ELSE lct)

CrawlInit ==
    /\ site_kind \in [Sites -> SiteKinds]
    /\ current_crawls = {} /\ last_crawl_times = {}
    /\ crawl = NoCrawl /\ crawls = 0 /\ fc_is_running = FALSE
    /\ scheduler_thread = 0 /\ thread = [t \in 1..MaxStarts |-> "unborn"]
    /\ io_errors = 0 /\ call = <<>> /\ last_commit = <<>> /\ found = <<>>
    /\ doc_content = <<>> /\ chunk_size = 1 /\ chunk_overlap = 1 /\ chunked = <<>>
    \* no Drive ingestion runs
    /\ prog = "GoogleDriveManager" /\ drive = [f \in Files |-> 1]
    /\ synced = [f \in Files |-> Absent]
    /\ collection = {} /\ spc = "off" /\ files_to_update = <<>>
    /\ job = [id |-> 0, mode |-> "none"]
    /\ synced_count = 0 /\ result = {} /\ delta = {}
    /\ outcome = [f \in Files |-> "none"] /\ singles = 0
    \* no conversation turn runs
    /\ client = "MCPClient" /\ tpc = "returned" /\ response = <<>> /\ pending = <<>>
    /\ messages = <<>> /\ final_text = <<>> /\ post_tool_count = 0
    /\ invocations = <<>> /\ model_calls = 0 /\ model_error = FALSE
    /\ ret = [kind |-> "none", text |-> <<>>]
    /\ thread_ts = FALSE /\ channel_id = FALSE /\ enable_tool_use = FALSE
    \* no web sync runs
    /\ is_running = FALSE /\ task = [t \in 0..MaxManual |-> [pc |-> "off"]]
    /\ pages = [u \in Urls |-> "blank"]
    /\ web_docs = {} /\ passes = 0 /\ last_pass = "none"

notCrawl == <<turnVars, syncVars, webVars, faultVars, concVars, searchVars,
              chunkVars>>

\* POST /firecrawl/crawl (knowledge_routes.py) and scripts/manual_crawl.py:
\* crawl_all_sites
CrawlAllSites ==
    /\ crawl.pc \in {"idle", "returned"}
    /\ crawls < MaxCrawls
    /\ crawls' = crawls + 1
    /\ CrawlSitesBegin(ConfigSites)
    /\ UNCHANGED <<site_kind, last_crawl_times, fc_is_running,
                   scheduler_thread, thread>>
    /\ UNCHANGED notCrawl

\* one of the gathered tasks ends (_crawl_site)
CrawlSite(i) ==
    /\ crawl.pc = "gather"
    /\ i \in 1..Len(crawl.tasks)
    /\ crawl.results[i] = Pending
    /\ \E r \in CrawlSiteOutcomes(crawl.tasks[i]) :
          crawl' = [crawl EXCEPT !.results[i] = r]
    /\ UNCHANGED <<site_kind, current_crawls, last_crawl_times, crawls,
                   fc_is_running, scheduler_thread, thread>>
    /\ UNCHANGED notCrawl

\* asyncio.gather returns and crawl_sites processes the results and returns
CrawlSitesReturn ==
    /\ crawl.pc = "gather"
    /\ \A i \in 1..Len(crawl.tasks) : crawl.results[i] # Pending
    /\ LET done == ProcessResults(crawl.sites, crawl.results, 1,
                                  current_crawls, last_crawl_times) IN
       /\ current_crawls' = done.current_crawls
       /\ last_crawl_times' = done.last_crawl_times
    /\ crawl' = [crawl EXCEPT !.pc = "returned"]
    /\ UNCHANGED <<site_kind, crawls, fc_is_running, scheduler_thread, thread>>
    /\ UNCHANGED notCrawl

\* the threads created so far
Created == {t \in 1..MaxStarts : thread[t] # "unborn"}

\* start_crawl_service, up to the await inside its initial crawl_all_sites
StartCrawlService ==
    /\ crawl.pc \in {"idle", "returned"}
    /\ IF fc_is_running
       THEN UNCHANGED <<current_crawls, crawl, fc_is_running,
                        scheduler_thread, thread>>
       ELSE /\ Cardinality(Created) < MaxStarts
            /\ fc_is_running' = TRUE
            /\ scheduler_thread' = Cardinality(Created) + 1
            /\ thread' = [thread EXCEPT ![Cardinality(Created) + 1] = "start"]
            /\ CrawlSitesBegin(ConfigSites)
    /\ UNCHANGED <<site_kind, last_crawl_times, crawls>>
    /\ UNCHANGED notCrawl

\* stop_crawl_service
StopCrawlService ==
    /\ IF ~fc_is_running
       THEN UNCHANGED <<fc_is_running, scheduler_thread>>
       ELSE /\ fc_is_running' = FALSE
            /\ scheduler_thread' = 0
    /\ UNCHANGED <<site_kind, current_crawls, last_crawl_times, crawl, crawls,
                   thread>>
    /\ UNCHANGED notCrawl

\* _run_scheduler: the test of `while self.is_running`, by a thread that
\* enters the loop or wakes from time.sleep(60)
SchedulerTest(t) ==
    /\ thread[t] \in {"start", "sleep"}
    /\ thread' = [thread EXCEPT ![t] = IF fc_is_running THEN "run_pending"
                                                         ELSE "exited"]
    /\ UNCHANGED <<site_kind, current_crawls, last_crawl_times, crawl, crawls,
                   fc_is_running, scheduler_thread>>
    /\ UNCHANGED notCrawl

\* _run_scheduler: schedule.run_pending().  When the hourly job is due it
\* runs _check_scheduled_crawls in this thread; with a site to crawl the
\* job calls asyncio.get_event_loop(), which raises RuntimeError in a thread
\* that has no event loop, and the exception ends the thread.
SchedulerRunPending(t, due) ==
    /\ thread[t] = "run_pending"
    /\ LET sites_to_crawl == {s \in Sites : HasUrl(s)} IN
       thread' = [thread EXCEPT ![t] =
                    IF due /\ fc_is_running /\ sites_to_crawl # {}
                    THEN "failed" ELSE "sleep"]
    /\ UNCHANGED <<site_kind, current_crawls, last_crawl_times, crawl, crawls,
                   fc_is_running, scheduler_thread>>
    /\ UNCHANGED notCrawl

CrawlNext ==
    \/ CrawlAllSites
    \/ \E i \in 1..NumSites : CrawlSite(i)
    \/ CrawlSitesReturn
    \/ StartCrawlService
    \/ StopCrawlService
    \/ \E t \in 1..MaxStarts : SchedulerTest(t)
    \/ \E t \in 1..MaxStarts, due \in BOOLEAN : SchedulerRunPending(t, due)

(***************************************************************************)
(* The specifications: each runs one part; its initial state holds the      *)
(* other parts still.                                                      *)
(***************************************************************************)
SpecTurn == TurnInit /\ [][TurnNext]_vars

SpecSync == SyncInit /\ [][SyncNext]_vars
SpecSyncIO == SyncInit /\ [][SyncIoNext]_vars
SpecCommit == CommitInit /\ [][CommitNext]_vars
SpecSearch == SearchInit /\ [][SearchNext]_vars
SpecChunk == ChunkInit /\ [][ChunkNext]_vars
SpecCrawl == CrawlInit /\ [][CrawlNext]_vars

SpecWeb == WebInit /\ [][WebNext]_vars

(***************************************************************************)
(* Properties of the tool loop, checked under SpecTurn.                    *)
(***************************************************************************)
\* the executions of a posting tool that ended well
SuccessfulPosts ==
    {i \in DOMAIN invocations : /\ invocations[i].tool \in post_tool_names
                                /\ invocations[i].outcome = "ok"}

\* C1: within one turn at most one posting tool executes successfully, and
\* once one has, it is the last tool execution and the turn has terminated.
AtMostOnePostingTool ==
    /\ Cardinality(SuccessfulPosts) <= 1
    /\ \A i \in SuccessfulPosts : i = Len(invocations) /\ tpc = "returned"

\* a configured maximum round count that the explored runs can reach
RoundCap == MaxModelCalls - 1

\* C2: a turn never makes more model calls than the configured maximum
\* round count.
RoundCapRespected == model_calls <= RoundCap

\* the number of model calls made when the i-th tool execution happened
CallsAt(i) == IF client = "claude_mcp_request" THEN 1 ELSE invocations[i].round

\* C9: a tool execution of the loop that fails does not abort the turn: its
\* error-shaped tool result is in the message history and the loop goes on to
\* the next model call.
ToolFailureFedBack ==
    \A i \in DOMAIN invocations :
        (invocations[i].phase = "loop" /\ invocations[i].outcome # "ok") =>
            /\ \E j \in DOMAIN messages :
                   /\ messages[j].type \in {"tool_result", "result_content"}
                   /\ messages[j].round = invocations[i].round
            /\ tpc \in {"call_model", "tools"} \/ model_calls > CallsAt(i)

\* C10: once the model API call has failed the turn is over with the fixed
\* apology as its return value, and nothing was executed after the failure.
ModelFailureTerminal ==
    model_error =>
        /\ tpc = "returned"
        /\ ret = ErrorResponse
        /\ \A i \in DOMAIN invocations : invocations[i].phase # "except"

\* the positions of the history that hold the result of a tool
ResultPositions ==
    {j \in DOMAIN messages : messages[j].type \in {"tool_result", "result_content"}}

\* C14: in the history every tool result comes after the recorded model
\* response that requested it, with nothing but tool results in between, and
\* when the next model call is due every executed tool has its result
\* recorded.
HistoryOrdered ==
    /\ \A j \in ResultPositions :
           \E i \in 1..(j - 1) :
               /\ messages[i].type = "tool_use"
               /\ \A k \in (i + 1)..(j - 1) : k \in ResultPositions
    /\ (tpc = "call_model" \/ (tpc = "tools" /\ pending = <<>>)) =>
           Cardinality(ResultPositions) = Len(invocations)

\* the result of the tool execution inv is recorded in the history msgs
HasResult(msgs, inv) ==
    \E k \in DOMAIN msgs : /\ msgs[k].type \in {"tool_result", "result_content"}
                           /\ msgs[k].round = inv.round

\* C15: the tool calls of a turn run one after the other: whenever the loop
\* executes a tool, every tool call made earlier in the turn has already
\* returned and has its result recorded, and at most one tool call of the
\* loop is made in a step.
ToolCallsSequential ==
    [][\A i \in DOMAIN invocations' :
          (i > Len(invocations) /\ invocations'[i].phase = "loop") =>
              \A j \in 1..(i - 1) : HasResult(messages, invocations'[j])]_vars

\* C15 happens: the loop has executed two tools in one turn
TwoToolCallsMade ==
    /\ Len(invocations) >= 2
    /\ invocations[1].phase = "loop"
    /\ invocations[2].phase = "loop"


\* C21: on a failure while a request is handled no text delivered to the
\* user holds the message of an internal exception: the turn does not return
\* a text built from str(e), and the except branch posts no such text to
\* Slack
NoExceptionTextDelivered ==
    /\ \A i \in DOMAIN ret.text : ret.text[i] # "str(e)"
    /\ \A i \in DOMAIN invocations :
          ~(invocations[i].phase = "except" /\ invocations[i].outcome = "ok")


\* C27: a posting tool call that fails does not end the turn: the step in
\* which the loop executes a posting tool that fails feeds the failure back
\* as a message of the history and leaves the turn running
FailedPostNotTerminal ==
    [][(/\ Len(invocations') = Len(invocations) + 1
        /\ invocations'[Len(invocations')].tool \in post_tool_names
        /\ invocations'[Len(invocations')].outcome # "ok"
        /\ invocations'[Len(invocations')].phase = "loop")
          => /\ tpc' \notin {"returned", "raised"}
             /\ Len(messages') > Len(messages)]_vars
WatermarkMonotone ==
    [][\A f \in Files : synced[f] # Absent => synced'[f] >= synced[f]]_vars

\* C6: when no ingestion is in progress, the chunks stored for a doc_id all
\* come from one ingestion: no two of them have the same chunk_index, and
\* none is of an older version of the file than another.
NoDuplicateChunks ==
    spc \in {"idle", "done"} =>
        \A c1, c2 \in collection :
            c1.doc = c2.doc =>
                /\ c1.ver = c2.ver
                /\ c1.chunk_index = c2.chunk_index => c1 = c2

\* C8: a completed batch in which an item failed has ingested every other
\* item and committed its watermark, and its summary reports the number of
\* failed and of succeeded items.
BatchSummaryReportsCounts ==
    (spc = "done" /\ \E f \in delta : outcome[f] = "failed") =>
        LET ok == {f \in delta : outcome[f] = "ok"}
            failed == {f \in delta : outcome[f] = "failed"}
        IN  /\ delta = ok \cup failed
            /\ \A f \in ok : synced[f] # Absent
            /\ result = {<<"failed", Cardinality(failed)>>,
                         <<"succeeded", Cardinality(ok)>>}

\* the listed files that have no watermark or a modifiedTime strictly greater
\* than their watermark
Stale == {f \in Files : synced[f] = Absent \/ drive[f] > synced[f]}

\* a sync pass begins: get_files_to_update has answered
PassStarts == spc = "idle" /\ spc' \in {"fetch", "done"}

ChunkIdsUniqueAndReproducible ==
    \A c1, c2 \in collection :
        /\ (c1.doc = c2.doc /\ c1.chunk_index = c2.chunk_index) => c1.id = c2.id
        /\ c1.id = c2.id => c1 = c2
        /\ MetaChunkId(c1) = MetaChunkId(c2) => c1 = c2


\* C16: a failure to read or write the sync file aborts the pass with the
\* error surfaced: once the commit of an item of the batch has hit such a
\* failure, no further item of the batch is ingested and the pass does not
\* return a success
SyncStateFailureFatal ==
    (\E f \in delta : outcome[f] = "sync_state_error")
        => /\ job.mode # "pass"
           /\ \A r \in result : r[1] # "succeeded"

\* C17: a failure of the vector store is fatal to the batch and surfaced to
\* its caller: the step in which the store of an item of a pass fails ends
\* the pass, and the pass does not return a count of successes
StoreFailureFatal ==
    [][(spc = "store" /\ job.mode = "pass" /\ outcome'[job.id] = "failed")
          => /\ spc' = "done"
             /\ \A r \in result' : r[1] # "succeeded"]_vars


\* C22: an item whose fetched content is empty is skipped: no step taken for
\* it once its content is in adds a chunk or commits its watermark
EmptyContentSkipped ==
    [][(spc \in {"store", "commit"} /\ job.content = "empty")
          => (collection' = collection /\ synced' = synced)]_vars

SourceTag(source) == IF source = "drive" THEN "google_drive" ELSE source

\* C20: a search with a source filter returns only chunks whose metadata
\* match the filter: with web chunks and Drive chunks stored, a search
\* filtered to "drive" returns Drive chunks only
SearchFilterRespected ==
    found.source # "all" =>
        \A c \in found.results : c.source = SourceTag(found.source)


(***************************************************************************)
(* Properties of the chunker, checked under SpecChunk.                     *)
(***************************************************************************)
IsPrefix(p, s) == Len(p) <= Len(s) /\ SubSeq(s, 1, Len(p)) = p

IsSuffix(p, s) == Len(p) <= Len(s) /\ SubSeq(s, Len(s) - Len(p) + 1, Len(s)) = p

\* the last n words of a text, all of them when it has fewer
TrailingWords(s, n) ==
    LET ws == SplitWords(s)
        m == Min(n, Len(ws))
    IN  SubSeq(ws, Len(ws) - m + 1, Len(ws))

\* C23: when a chunk is closed because the next paragraph would make the
\* buffer exceed chunk_size, the next chunk begins with the trailing
\* chunk_overlap words of the closed chunk followed by that paragraph
OverlapSeedsNextChunk ==
    \A c \in DOMAIN chunked : \A k \in DOMAIN chunked[c].closings :
        LET e == chunked[c].closings[k]
            begins == AddParagraph(JoinWords(TrailingWords(e.closed, chunk_overlap)), e.para)
        IN  /\ chunked[c].chunks[k] = e.closed
            /\ (k + 1) \in DOMAIN chunked[c].chunks
                  => IsPrefix(begins, chunked[c].chunks[k + 1])

EmptyInputNoChunks ==
    \A c \in DOMAIN chunked :
        doc_content = <<>> => chunked[c].chunks = <<>> /\ chunked[c].chunk_index = <<>>

\* C25 happens: the empty text has been chunked
EmptyInputChunked ==
    doc_content = <<>> /\ chunked # <<>>

GuardReleased ==
    crawl.pc = "returned" =>
        \A s \in crawl.started : Url(s) \notin current_crawls

\* the threads that are inside the body of the loop of _run_scheduler
InSchedulerLoop == {t \in 1..MaxStarts : thread[t] \in {"run_pending", "sleep"}}

\* C30: at any time at most one scheduler thread is inside the loop of
\* _run_scheduler, whatever calls of start_crawl_service and
\* stop_crawl_service were made.
OneSchedulerThread == Cardinality(InSchedulerLoop) <= 1

(***************************************************************************)
(* Properties of the web content sync, checked under SpecWeb.              *)
(***************************************************************************)
\* C5: a pass that starts after a pass that synced every URL, with no page
\* changed in between, adds no chunk to the collection.
SecondPassAddsNothing ==
    \A t \in Tasks : task[t].after_full => task[t].added = 0

\* C7: at no time are two sync passes of the web source in progress.
NoOverlappingPasses ==
    Cardinality({t \in Tasks : task[t].pc = "gather"}) <= 1

\* C13: the doc_id of a web page is a function of its URL: all chunks stored
\* for one URL, in whatever pass, carry the same doc_id.
DocIdDeterministic ==
    \A c1, c2 \in web_docs : c1.url = c2.url => c1.doc_id = c2.doc_id

\* the tasks of URLs a pass has in flight: asyncio.gather schedules the task
\* of every URL at once, and a task is over when its result is in
InFlight(t) == IF task[t].pc = "gather" THEN task[t].todo ELSE {}

\* any fixed limit is below the size of some batch: the batch of the model
\* has one URL more than the limit
ConcurrencyLimit == NumUrls - 1

\* C19: during a sync pass the number of URLs fetched and ingested at the
\* same time never exceeds the fixed concurrency limit
FanOutBounded ==
    \A t \in Tasks : Cardinality(InFlight(t)) <= ConcurrencyLimit

====
